---- MODULE Spec2Model ----
(***************************************************************************)
(* Model of the DeviceLock customer app: the background status poll, the   *)
(* push-notification listeners, the command dispatcher handleCommand, the  *)
(* delayed factory reset, and the App component that registers them.       *)
(*                                                                         *)
(* deviceService.js  = src/unnamed/part_001                                *)
(* App.js            = src/unnamed/part_003                                *)
(* kioskService.js   = src/unnamed/part_002                                *)
(* config/api.js     = src/unnamed/part_000                                *)
(*                                                                         *)
(* Spec     : every handler runs to completion as one action.              *)
(* RaceSpec : the listeners are split at their awaits, so two handler      *)
(*            executions can overlap.                                      *)
(***************************************************************************)
EXTENDS Integers, Sequences, FiniteSets, TLC

----------------------------------------------------------------------------
(* Bounds of the model *)

MaxDeliveries == 2      \* poll cycles + push deliveries in one behaviour
MaxSeqDeliveries == 3   \* the same, in ConvSpec
MaxNow == 10000         \* the clock stops advancing here (ms)
TickMs == 10000         \* granularity of the clock (ms)
MaxListeners == 2       \* subscriptions kept per listener kind
MaxCalls == 3           \* lockdown calls are counted up to here

(* Program constants *)

ResetDelayMs == 10000   \* setTimeout(..., 10000) before performFactoryReset
RingStopMs == 10000     \* setTimeout(..., 10000) before Vibration.cancel

----------------------------------------------------------------------------
(* Values *)

Undefined == "undefined"     \* a JS undefined / missing field

ActivationKeys == {"ABC123"}

Commands ==
    {Undefined, "none", "lock", "unlock", "reminder", "ring", "expired",
     "reset", "reboot"}

Messages == {Undefined, "", "Pay EMI"}

(* The status reports and push payloads delivered: a lockMessage comes    *)
(* with a lock command only.                                              *)
Reports ==
    {r \in [command : Commands, lockMessage : Messages] :
        r.command # "lock" => r.lockMessage = Undefined}

(* What can go wrong in one delivery.  A failed step ends the handler's   *)
(* try block, so at most one step fails per delivery.                     *)
Faults == {"none", "fetch", "notification", "ack"}

(* A failed fetch delivers no report. *)
NoReport == [command |-> Undefined, lockMessage |-> Undefined]

(* AsyncStorage calls of the poll task that can reject: the read of       *)
(* 'activationKey'; the first write of the try block; the write of        *)
(* 'lastSyncTime'; every write of the cycle, the one of the catch block   *)
(* included.                                                              *)
StoreFaults == {"keyRead", "write", "syncWrite", "storage"}

(* error.message of what the catch block of the poll task caught *)
ErrorDetail(fault) ==
    CASE fault = "fetch" -> "network"
      [] fault = "notification" -> "notification"
      [] OTHER -> "storage"

Channels == {"poll", "fg", "resp"}

(* The AsyncStorage keys the model tracks.  A key maps to <<>> when it is   *)
(* not stored and to <<v>> when it holds v.                                 *)
StoreKeys ==
    {"activationKey", "keyId", "isLocked", "lockMessage", "deviceStatus",
     "lastSyncTime", "lastSyncError", "device_locked", "kioskModeActive",
     "appHidden"}

EmptyStore == [k \in StoreKeys |-> <<>>]

getItem(st, k) == st[k]

setItem(st, k, v) == [st EXCEPT ![k] = <<v>>]

removeItem(st, k) == [st EXCEPT ![k] = <<>>]

clear(st) == [k \in DOMAIN st |-> <<>>]

Truthy(v) == v # Undefined /\ v # ""

(* status.lockMessage || '' *)
OrEmpty(m) == IF Truthy(m) THEN m ELSE ""

----------------------------------------------------------------------------
VARIABLES
    store,          \* AsyncStorage
    now,            \* Date.now()
    timers,         \* pending setTimeout callbacks, in scheduling order
    vibrating,      \* Vibration.vibrate running
    listeners,      \* number of live push subscriptions of each kind
    pollRegistered, \* the background fetch task is registered with the OS
    ui,             \* App's React state: isActivated, isLocked
    effectDirty,    \* isLocked changed: App's effect has to re-run
    last,           \* what the most recent delivery handler did
    conv,           \* progress through the sequence lock, reminder, unlock
    wipesInWindow,  \* wipes fired by the resets of the current window
    budget,         \* deliveries still to be made
    procs,          \* RaceSpec: the handler executions in flight
    native,         \* what the device's DeviceAdminModule does when called
    kiosk,          \* OS lockdown in force: lock task mode, app hidden
    history         \* DispatchSpec: the commands handleCommand was given

vars ==
    <<store, now, timers, vibrating, listeners, pollRegistered, ui,
      effectDirty, last, conv, wipesInWindow, budget, procs, native,
      kiosk, history>>


NoLast ==
    [chan |-> "none", cmd |-> Undefined, msg |-> Undefined, id |-> <<>>,
     outcome |-> "None", dispatched |-> FALSE, dispatchOK |-> FALSE,
     ack |-> <<>>, acked |-> FALSE, enable |-> 0, disable |-> 0,
     wrote |-> FALSE, dupOf |-> "none", alert |-> "none"]

----------------------------------------------------------------------------
(* handleCommand(command, status) *)

(* Notifies with a bug: the default case of the switch alerts too. *)
NotifiesUnknownToo(command) == TRUE

(* The cases of the switch that end in sendLocalNotification. *)
Notifies(command) ==
    command \in {"lock", "unlock", "reminder", "ring", "expired", "reset"}

(* The cases of the switch that write AsyncStorage. *)
WritesStore(command) == command \in {"lock", "unlock", "expired"}

(* hcStore with a bug: the lock state is stored only when the native      *)
(* module can enforce it.                                                 *)
hcStoreWhenEnforced(st, command, lockMessage) ==
    CASE command = "lock" /\ native = "ok" ->
            setItem(setItem(st, "isLocked", "true"),
                    "lockMessage", OrEmpty(lockMessage))
      [] command \in {"unlock", "expired"} /\ native = "ok" ->
            removeItem(setItem(st, "isLocked", "false"), "lockMessage")
      [] OTHER -> st

(* hcStore with a bug: 'expired' has no case of its own and falls to the  *)
(* default.                                                               *)
hcStoreExpiredKeeps(st, command, lockMessage) ==
    CASE command = "lock" ->
            setItem(setItem(st, "isLocked", "true"),
                    "lockMessage", OrEmpty(lockMessage))
      [] command = "unlock" ->
            removeItem(setItem(st, "isLocked", "false"), "lockMessage")
      [] OTHER -> st

(* hcStore with a bug: unlock and expired leave the stored message. *)
hcStoreKeepsMessage(st, command, lockMessage) ==
    CASE command = "lock" ->
            setItem(setItem(st, "isLocked", "true"),
                    "lockMessage", OrEmpty(lockMessage))
      [] command \in {"unlock", "expired"} ->
            setItem(st, "isLocked", "false")
      [] OTHER -> st

(* AsyncStorage after handleCommand: the writes come before the           *)
(* notification, so they are made whether or not the notification throws. *)
hcStore(st, command, lockMessage) ==
    CASE command = "lock" ->
            setItem(setItem(st, "isLocked", "true"),
                    "lockMessage", OrEmpty(lockMessage))
      [] command \in {"unlock", "expired"} ->
            removeItem(setItem(st, "isLocked", "false"), "lockMessage")
      [] OTHER -> st

(* hcTimers with a bug: an unlock clears the pending reset. *)
hcTimersUnlockCancels(tm, command, t, notifOK) ==
    CASE command = "ring" ->
            Append(tm, [kind |-> "ring", due |-> t + RingStopMs])
      [] command = "reset" /\ notifOK ->
            Append(tm, [kind |-> "reset", due |-> t + ResetDelayMs])
      [] command = "unlock" ->
            SelectSeq(tm, LAMBDA x : x.kind # "reset")
      [] OTHER -> tm

(* The pending timers after handleCommand.  ringDevice schedules its       *)
(* Vibration.cancel before the notification is sent; 'reset' schedules     *)
(* performFactoryReset after it, so only when the notification succeeded.  *)
hcTimers(tm, command, t, notifOK) ==
    CASE command = "ring" ->
            Append(tm, [kind |-> "ring", due |-> t + RingStopMs])
      [] command = "reset" /\ notifOK ->
            Append(tm, [kind |-> "reset", due |-> t + ResetDelayMs])
      [] OTHER -> tm

(* ringDevice: Vibration.vibrate(pattern, false) *)
hcVibrating(vib, command) ==
    IF command = "ring" THEN TRUE ELSE vib

(* What became of the alert of handleCommand: none asked for, sent, or    *)
(* sendLocalNotification rejected.                                        *)
hcAlert(command, notifOK) ==
    IF ~Notifies(command) THEN "none"
    ELSE IF notifOK THEN "sent" ELSE "failed"

(* handleCommand returns normally unless sendLocalNotification rejects. *)
hcOK(command, notifOK) == Notifies(command) => notifOK

----------------------------------------------------------------------------
(* The background task and the push listeners *)

(* AckCaught with a bug: a rejected acknowledgement is thrown on. *)
AckThrown(ackOK) == ackOK

(* try { await deviceAPI.acknowledgeCommand(...) } catch (ackError) {}:   *)
(* the task goes on after the acknowledgement whether or not it failed.   *)
AckCaught(ackOK) == TRUE

(* ReachesSave with a bug: the status is saved whatever the dispatch did. *)
ReachesSaveAlways(fetched, dispatched, ok) == fetched

(* The poll task gets to its writes of 'deviceStatus' and 'lastSyncTime'  *)
(* when the fetch resolved and handleCommand, if called, did not throw.   *)
ReachesSave(fetched, dispatched, ok) == fetched /\ (dispatched => ok)

(* HasCommand with a bug: 'none' is taken for a command, as the push      *)
(* listeners take it.                                                     *)
HasCommandNoneToo(command) == Truthy(command)

(* if (status.command && status.command !== 'none') *)
HasCommand(command) == Truthy(command) /\ command # "none"

(* if (command) in both push listeners *)
PushHasCommand(command) == Truthy(command)

(* AsyncStorage.getItem('keyId') || AsyncStorage.getItem('activationKey') *)
PushAckKey(st) ==
    IF getItem(st, "keyId") # <<>> THEN getItem(st, "keyId")
    ELSE getItem(st, "activationKey")

(* isDeviceLocked() *)
isDeviceLocked(st) == getItem(st, "isLocked") = <<"true">>

(* Which channel handled this very (identity, command, message) in the    *)
(* delivery just before, if it dispatched and acknowledged it.             *)
DupOf(prev, key, command, lockMessage) ==
    IF /\ prev.dispatched
       /\ prev.acked
       /\ prev.ack[1].keyId = key
       /\ prev.cmd = command
       /\ prev.msg = lockMessage
    THEN prev.chan
    ELSE "none"

Count(n) == IF n > MaxCalls THEN MaxCalls ELSE n

Kept(n) == IF n > MaxListeners THEN MaxListeners ELSE n

(* Progress through the command sequence lock, reminder, unlock, and the  *)
(* lockdown calls made since its lock.                                    *)
NextConv(c, dispatched, command, en, dis) ==
    IF ~dispatched
    THEN IF c.stage \in {1, 2}
         THEN [c EXCEPT !.en = Count(c.en + en), !.dis = Count(c.dis + dis)]
         ELSE c
    ELSE CASE command = "lock" -> [stage |-> 1, en |-> en, dis |-> dis]
           [] command = "reminder" /\ c.stage = 1 ->
                [stage |-> 2, en |-> Count(c.en + en),
                 dis |-> Count(c.dis + dis)]
           [] command = "unlock" /\ c.stage = 2 ->
                [stage |-> 3, en |-> Count(c.en + en),
                 dis |-> Count(c.dis + dis)]
           [] OTHER -> [stage |-> 0, en |-> 0, dis |-> 0]

(* A reset dispatched while no reset is pending opens a new window. *)
PendingResets(tm) == {i \in DOMAIN tm : tm[i].kind = "reset"}

NextWipes(w, tmBefore, tmAfter) ==
    IF PendingResets(tmBefore) = {} /\ PendingResets(tmAfter) # {}
    THEN 0
    ELSE w

----------------------------------------------------------------------------
(* kioskService.js *)

(* What the native DeviceAdminModule does on this device: it is absent    *)
(* (iOS, Expo Go); device admin is not granted, so its calls throw; it    *)
(* works; it works except for one call that throws (lock task mode, the   *)
(* launcher entry, the status bar, the user restrictions); or             *)
(* isDeviceAdmin() itself throws.                                         *)
Natives ==
    {"absent", "noAdmin", "ok", "kioskThrows", "adminThrows", "hideThrows",
     "statusBarThrows", "restrictionsThrows", "noAdminCallsReturn"}

NoKiosk ==
    [lockTask |-> FALSE, hidden |-> FALSE, statusBarOff |-> FALSE,
     restricted |-> FALSE]

(* The native call of this primitive returns rather than throws. *)
Works(nat, call) ==
    CASE nat = "ok" -> TRUE
      [] nat = "kioskThrows" -> call # "lockTask"
      [] nat = "hideThrows" -> call # "launcher"
      [] nat = "statusBarThrows" -> call # "statusBar"
      [] nat = "restrictionsThrows" -> call # "restrictions"
      [] nat = "noAdminCallsReturn" -> call # "isDeviceAdmin"
      [] OTHER -> FALSE

(* isDeviceAdmin(): false without the module and when the call throws *)
isDeviceAdmin(nat) == Works(nat, "isDeviceAdmin")

(* setLockTaskMode with a bug: the native call toggles the mode. *)
toggleLockTaskMode(k, nat, on) ==
    IF Works(nat, "lockTask") THEN [k EXCEPT !.lockTask = ~@] ELSE k

(* startLockTaskMode() / stopLockTaskMode(): the mode asked for when the  *)
(* native call returns; a throw is caught and leaves the mode as it was.  *)
setLockTaskMode(k, nat, on) ==
    IF Works(nat, "lockTask") THEN [k EXCEPT !.lockTask = on] ELSE k

(* hideAppFromLauncher() / showAppInLauncher() *)
setAppHidden(k, nat, on) ==
    IF Works(nat, "launcher") THEN [k EXCEPT !.hidden = on] ELSE k

(* disableStatusBar() / enableStatusBar() *)
setStatusBarOff(k, nat, on) ==
    IF Works(nat, "statusBar") THEN [k EXCEPT !.statusBarOff = on] ELSE k

(* setUserRestrictions(enable) *)
setUserRestrictions(k, nat, on) ==
    IF Works(nat, "restrictions") THEN [k EXCEPT !.restricted = on] ELSE k

(* The flag each of startLockTaskMode() / stopLockTaskMode() stores once  *)
(* its native call has returned.                                          *)
storeLockTaskMode(st, nat, on) ==
    IF Works(nat, "lockTask")
    THEN setItem(st, "kioskModeActive", IF on THEN "true" ELSE "false")
    ELSE st

(* The flag of hideAppFromLauncher() / showAppInLauncher(). *)
storeAppHidden(st, nat, on) ==
    IF Works(nat, "launcher")
    THEN setItem(st, "appHidden", IF on THEN "true" ELSE "false")
    ELSE st

(* enableFullLockdown with a bug: the first primitive that fails ends the *)
(* call.                                                                  *)
enableFullLockdownStopsAtFailure(k, nat) ==
    IF ~isDeviceAdmin(nat) THEN k
    ELSE IF ~Works(nat, "lockTask") THEN k
    ELSE IF ~Works(nat, "launcher") THEN setLockTaskMode(k, nat, TRUE)
    ELSE IF ~Works(nat, "statusBar")
    THEN setAppHidden(setLockTaskMode(k, nat, TRUE), nat, TRUE)
    ELSE setUserRestrictions(
            setStatusBarOff(
                setAppHidden(setLockTaskMode(k, nat, TRUE), nat, TRUE),
                nat, TRUE),
            nat, TRUE)

(* enableFullLockdown with a bug: the primitives are called without      *)
(* asking for device admin.                                               *)
enableFullLockdownUnchecked(k, nat) ==
    setUserRestrictions(
        setStatusBarOff(
            setAppHidden(setLockTaskMode(k, nat, TRUE), nat, TRUE),
            nat, TRUE),
        nat, TRUE)

(* enableFullLockdown(): nothing without device admin; with it, the four  *)
(* primitives one after another, each catching its own error.             *)
enableFullLockdown(k, nat) ==
    IF ~isDeviceAdmin(nat) THEN k
    ELSE setUserRestrictions(
            setStatusBarOff(
                setAppHidden(setLockTaskMode(k, nat, TRUE), nat, TRUE),
                nat, TRUE),
            nat, TRUE)

(* disableFullLockdown() *)
disableFullLockdown(k, nat) ==
    setUserRestrictions(
        setStatusBarOff(
            setAppHidden(setLockTaskMode(k, nat, FALSE), nat, FALSE),
            nat, FALSE),
        nat, FALSE)

(* The results enableFullLockdown() returns: each primitive returns true  *)
(* when its native call returned, and is only called with device admin.   *)
enableResults(nat) ==
    [deviceAdmin |-> isDeviceAdmin(nat),
     kioskMode |-> isDeviceAdmin(nat) /\ Works(nat, "lockTask"),
     appHidden |-> isDeviceAdmin(nat) /\ Works(nat, "launcher"),
     statusBarDisabled |-> isDeviceAdmin(nat) /\ Works(nat, "statusBar"),
     restrictionsSet |-> isDeviceAdmin(nat) /\ Works(nat, "restrictions")]

(* AsyncStorage after enableFullLockdown() and disableFullLockdown(). *)
enableFullLockdownStore(st, nat) ==
    IF ~isDeviceAdmin(nat) THEN st
    ELSE storeAppHidden(storeLockTaskMode(st, nat, TRUE), nat, TRUE)

disableFullLockdownStore(st, nat) ==
    storeAppHidden(storeLockTaskMode(st, nat, FALSE), nat, FALSE)

----------------------------------------------------------------------------
(* App.js *)

(* The callback initializeApp hands to setupPushNotificationListener:      *)
(* the isLocked state after it, and the lockdown calls it makes.           *)
cbLocked(locked, command) ==
    CASE command = "lock" -> TRUE
      [] command = "unlock" -> FALSE
      [] OTHER -> locked

(* cbEnable with a bug: every command but 'unlock' enables the lockdown. *)
cbEnableUnlessUnlock(command) == IF command # "unlock" THEN 1 ELSE 0

cbEnable(command) == IF command = "lock" THEN 1 ELSE 0

cbDisable(command) == IF command = "unlock" THEN 1 ELSE 0

(* The lockdown calls of the callback. *)
cbLockdown(k, nat, en, dis) ==
    IF en = 1 THEN enableFullLockdown(k, nat)
    ELSE IF dis = 1 THEN disableFullLockdown(k, nat)
    ELSE k

cbLockdownStore(st, nat, en, dis) ==
    IF en = 1 THEN enableFullLockdownStore(st, nat)
    ELSE IF dis = 1 THEN disableFullLockdownStore(st, nat)
    ELSE st

(* initializeApp(): what it leaves in App's state and in the process. *)
initActivated(st) == getItem(st, "activationKey") # <<>>

initLocked(st, locked) ==
    IF initActivated(st) THEN isDeviceLocked(st) ELSE locked

initEnable(st) == IF initActivated(st) /\ isDeviceLocked(st) THEN 1 ELSE 0

initListeners(st, n) == IF initActivated(st) THEN n + 1 ELSE n

initPoll(st, registered) == registered \/ initActivated(st)

(* initLockdown with a bug: a restart hides the app and leaves the        *)
(* lockdown to the next command.                                          *)
initLockdownHidesOnly(st, k, nat) ==
    IF initActivated(st) /\ getItem(st, "appHidden") # <<"true">>
    THEN setAppHidden(k, nat, TRUE)
    ELSE k

(* initializeApp() on an activated device hides the app unless           *)
(* 'appHidden' says it is hidden, and enables the lockdown when the       *)
(* stored flag says locked.                                               *)
initLockdown(st, k, nat) ==
    LET hid == IF getItem(st, "appHidden") # <<"true">>
               THEN setAppHidden(k, nat, TRUE)
               ELSE k
    IN  IF ~initActivated(st) THEN k
        ELSE IF isDeviceLocked(st) THEN enableFullLockdown(hid, nat)
        ELSE hid

initLockdownStore(st, nat) ==
    LET hid == IF getItem(st, "appHidden") # <<"true">>
               THEN storeAppHidden(st, nat, TRUE)
               ELSE st
    IN  IF ~initActivated(st) THEN st
        ELSE IF isDeviceLocked(st) THEN enableFullLockdownStore(hid, nat)
        ELSE hid

(* A handler execution that has not started. *)
IdleProc ==
    [pc |-> "idle", cmd |-> Undefined, msg |-> Undefined, key |-> <<>>,
     en |-> 0, dis |-> 0, with |-> {}, runs |-> 0, expired |-> FALSE,
     out |-> "None"]

----------------------------------------------------------------------------
Init ==
    /\ store = EmptyStore
    /\ now = 0
    /\ timers = <<>>
    /\ vibrating = FALSE
    /\ listeners = 0
    /\ pollRegistered = FALSE
    /\ ui = [activated |-> FALSE, locked |-> FALSE]
    /\ effectDirty = FALSE
    /\ last = NoLast
    /\ conv = [stage |-> 0, en |-> 0, dis |-> 0]
    /\ wipesInWindow = 0
    /\ budget = MaxDeliveries
    /\ procs = [p \in Channels |-> IdleProc]
    /\ native = "absent"
    /\ kiosk = NoKiosk
    /\ history = <<>>

(* How far one run of the task defined for BACKGROUND_FETCH_TASK gets,    *)
(* for the key it reads, the report the server gives and the step that    *)
(* rejects.  A rejected AsyncStorage call inside the try block ends the   *)
(* cycle like any other error; the write of 'lastSyncError' in the catch  *)
(* block is not guarded, so when it rejects too the task's promise        *)
(* rejects.                                                               *)
PollSteps(key, report, fault) ==
    LET readOK == fault # "keyRead"
        writeOK == fault \notin {"write", "storage"}
        fetched == readOK /\ key # <<>> /\ fault # "fetch"
        dispatched == fetched /\ HasCommand(report.command)
        hcWrote == dispatched /\ (WritesStore(report.command) => writeOK)
        ok == hcWrote /\ hcOK(report.command, fault # "notification")
        acking == ok => AckCaught(fault # "ack")
        statusSaved ==
            ReachesSave(fetched, dispatched, ok /\ acking) /\ writeOK
        syncSaved == statusSaved /\ fault # "syncWrite"
        failed ==
            \/ ~readOK
            \/ /\ key # <<>>
               /\ \/ fault = "fetch"
                  \/ dispatched /\ ~(ok /\ acking)
                  \/ fetched /\ (dispatched => ok) /\ ~syncSaved
    IN  [fetched |-> fetched,
         cmd |-> IF fetched THEN report.command ELSE Undefined,
         msg |-> IF fetched THEN report.lockMessage ELSE Undefined,
         dispatched |-> dispatched, hcWrote |-> hcWrote, ok |-> ok,
         statusSaved |-> statusSaved, syncSaved |-> syncSaved,
         failed |-> failed, threw |-> failed /\ fault = "storage"]

(* One run of the task defined for BACKGROUND_FETCH_TASK. *)
PollCycle(report, fault) ==
    \E s \in {PollSteps(getItem(store, "activationKey"), report, fault)} :
    LET notifOK == fault # "notification"
        key == getItem(store, "activationKey")
        st1 == IF s.hcWrote THEN hcStore(store, s.cmd, s.msg) ELSE store
        st2 == IF s.statusSaved
               THEN setItem(st1, "deviceStatus",
                            [command |-> s.cmd, lockMessage |-> s.msg])
               ELSE st1
        st3 == IF s.syncSaved THEN setItem(st2, "lastSyncTime", now)
               ELSE st2
        st4 == IF s.failed /\ ~s.threw
               THEN setItem(st3, "lastSyncError",
                            [error |-> ErrorDetail(fault), timestamp |-> now])
               ELSE st3
        tm == IF s.hcWrote THEN hcTimers(timers, s.cmd, now, notifOK)
              ELSE timers
    IN  /\ pollRegistered
        /\ budget > 0
        /\ budget' = budget - 1
        /\ store' = st4
        /\ timers' = tm
        /\ vibrating' = IF s.hcWrote THEN hcVibrating(vibrating, s.cmd)
                        ELSE vibrating
        /\ last' =
            [chan |-> "poll", cmd |-> s.cmd, msg |-> s.msg,
             id |-> PushAckKey(store),
             outcome |-> IF s.threw THEN "Threw"
                         ELSE IF s.failed THEN "Failed"
                         ELSE IF key = <<>> THEN "NoData" ELSE "NewData",
             dispatched |-> s.dispatched, dispatchOK |-> s.ok,
             ack |-> IF s.ok THEN <<[keyId |-> key[1], command |-> s.cmd]>>
                     ELSE <<>>,
             acked |-> s.ok /\ fault # "ack",
             enable |-> 0, disable |-> 0,
             wrote |-> \/ s.hcWrote /\ WritesStore(s.cmd)
                       \/ s.statusSaved
                       \/ s.failed /\ ~s.threw,
             dupOf |-> IF s.dispatched
                       THEN DupOf(last, key[1], s.cmd, s.msg)
                       ELSE "none",
             alert |-> IF s.hcWrote THEN hcAlert(s.cmd, notifOK)
                       ELSE "none"]
        /\ conv' = NextConv(conv, s.dispatched, s.cmd, 0, 0)
        /\ wipesInWindow' = NextWipes(wipesInWindow, timers, tm)
        /\ UNCHANGED <<now, listeners, pollRegistered, ui, effectDirty,
                       procs>>
        /\ UNCHANGED <<native, kiosk, history>>

(* foregroundSubscription: one notification handled by one listener. *)
PushForeground(data, fault) ==
    LET notifOK == fault # "notification"
        ackOK == fault # "ack"
        cmd == data.command
        msg == data.lockMessage
        dispatched == PushHasCommand(cmd)
        ok == dispatched /\ hcOK(cmd, notifOK)
        st1 == IF dispatched THEN hcStore(store, cmd, msg) ELSE store
        key == PushAckKey(st1)
        acked == ok /\ key # <<>>
        tm == IF dispatched THEN hcTimers(timers, cmd, now, notifOK)
              ELSE timers
        locked == IF ok THEN cbLocked(ui.locked, cmd) ELSE ui.locked
        en == IF ok THEN cbEnable(cmd) ELSE 0
        dis == IF ok THEN cbDisable(cmd) ELSE 0
    IN  /\ listeners >= 1
        /\ budget > 0
        /\ budget' = budget - 1
        /\ store' = cbLockdownStore(st1, native, en, dis)
        /\ timers' = tm
        /\ vibrating' = IF dispatched THEN hcVibrating(vibrating, cmd)
                        ELSE vibrating
        /\ ui' = [ui EXCEPT !.locked = locked]
        /\ effectDirty' = (effectDirty \/ locked # ui.locked)
        /\ last' =
            [chan |-> "fg", cmd |-> cmd, msg |-> msg,
             id |-> PushAckKey(store),
             outcome |-> "None",
             dispatched |-> dispatched, dispatchOK |-> ok,
             ack |-> IF acked THEN <<[keyId |-> key[1], command |-> cmd]>>
                     ELSE <<>>,
             acked |-> acked /\ ackOK,
             enable |-> en, disable |-> dis,
             wrote |-> dispatched /\ WritesStore(cmd),
             dupOf |-> IF PushHasCommand(cmd) /\ PushAckKey(store) # <<>>
                       THEN DupOf(last, PushAckKey(store)[1], cmd, msg)
                       ELSE "none",
             alert |-> IF dispatched THEN hcAlert(cmd, notifOK)
                       ELSE "none"]
        /\ conv' = NextConv(conv, dispatched, cmd, en, dis)
        /\ wipesInWindow' = NextWipes(wipesInWindow, timers, tm)
        /\ UNCHANGED <<now, listeners, pollRegistered, procs>>
        /\ kiosk' = cbLockdown(kiosk, native, en, dis)
        /\ UNCHANGED <<native, history>>

(* responseSubscription: one notification response handled by one        *)
(* listener.                                                              *)
PushResponse(data, fault) ==
    LET notifOK == fault # "notification"
        cmd == data.command
        msg == data.lockMessage
        dispatched == PushHasCommand(cmd)
        ok == dispatched /\ hcOK(cmd, notifOK)
        st1 == IF dispatched THEN hcStore(store, cmd, msg) ELSE store
        tm == IF dispatched THEN hcTimers(timers, cmd, now, notifOK)
              ELSE timers
        locked == IF ok THEN cbLocked(ui.locked, cmd) ELSE ui.locked
        en == IF ok THEN cbEnable(cmd) ELSE 0
        dis == IF ok THEN cbDisable(cmd) ELSE 0
    IN  /\ listeners >= 1
        /\ budget > 0
        /\ budget' = budget - 1
        /\ store' = cbLockdownStore(st1, native, en, dis)
        /\ timers' = tm
        /\ vibrating' = IF dispatched THEN hcVibrating(vibrating, cmd)
                        ELSE vibrating
        /\ ui' = [ui EXCEPT !.locked = locked]
        /\ effectDirty' = (effectDirty \/ locked # ui.locked)
        /\ last' =
            [chan |-> "resp", cmd |-> cmd, msg |-> msg,
             id |-> PushAckKey(store),
             outcome |-> "None",
             dispatched |-> dispatched, dispatchOK |-> ok,
             ack |-> <<>>,
             acked |-> FALSE,
             enable |-> en, disable |-> dis,
             wrote |-> dispatched /\ WritesStore(cmd),
             dupOf |-> IF PushHasCommand(cmd) /\ PushAckKey(store) # <<>>
                       THEN DupOf(last, PushAckKey(store)[1], cmd, msg)
                       ELSE "none",
             alert |-> IF dispatched THEN hcAlert(cmd, notifOK)
                       ELSE "none"]
        /\ conv' = NextConv(conv, dispatched, cmd, en, dis)
        /\ wipesInWindow' = NextWipes(wipesInWindow, timers, tm)
        /\ UNCHANGED <<now, listeners, pollRegistered, procs>>
        /\ kiosk' = cbLockdown(kiosk, native, en, dis)
        /\ UNCHANGED <<native, history>>

(* The oldest pending setTimeout callback runs once it is due:            *)
(* performFactoryReset (AsyncStorage.clear) or Vibration.cancel.          *)
TimerFire ==
    /\ timers # <<>>
    /\ Head(timers).due <= now
    /\ timers' = Tail(timers)
    /\ IF Head(timers).kind = "reset"
       THEN /\ store' = clear(store)
            /\ wipesInWindow' = wipesInWindow + 1
            /\ UNCHANGED vibrating
       ELSE /\ vibrating' = FALSE
            /\ UNCHANGED <<store, wipesInWindow>>
    /\ UNCHANGED <<now, listeners, pollRegistered, ui, effectDirty, last,
                   conv, budget, procs>>
    /\ UNCHANGED <<native, kiosk, history>>

(* Time passes while no callback is due. *)
Tick ==
    /\ now + TickMs <= MaxNow
    /\ timers # <<>> => Head(timers).due > now
    /\ now' = now + TickMs
    /\ UNCHANGED <<store, timers, vibrating, listeners, pollRegistered, ui,
                   effectDirty, last, conv, wipesInWindow, budget, procs>>
    /\ UNCHANGED <<native, kiosk, history>>

(* ActivationScreen.handleActivate, when the server accepts the key. *)
Activate(k) ==
    /\ ~ui.activated
    /\ ~ui.locked
    /\ store' = setItem(setItem(store, "keyId", k), "activationKey", k)
    /\ UNCHANGED <<now, timers, vibrating, listeners, pollRegistered, ui,
                   effectDirty, last, conv, wipesInWindow, budget, procs>>
    /\ UNCHANGED <<native, kiosk, history>>

(* Deactivate with a bug: deactivation resets the lock state too. *)
DeactivateUnlocks ==
    /\ ui.activated
    /\ ~ui.locked
    /\ store' = removeItem(removeItem(removeItem(store, "activationKey"),
                                      "isLocked"), "lockMessage")
    /\ UNCHANGED <<now, timers, vibrating, listeners, pollRegistered, ui,
                   effectDirty, last, conv, wipesInWindow, budget, procs>>
    /\ UNCHANGED <<native, kiosk, history>>

(* HomeScreen.handleDeactivate, confirmed. *)
Deactivate ==
    /\ ui.activated
    /\ ~ui.locked
    /\ store' = removeItem(store, "activationKey")
    /\ UNCHANGED <<now, timers, vibrating, listeners, pollRegistered, ui,
                   effectDirty, last, conv, wipesInWindow, budget, procs>>
    /\ UNCHANGED <<native, kiosk, history>>

(* App's effect runs initializeApp again after isLocked changed. *)
RunEffect ==
    /\ effectDirty
    /\ ui' = [activated |-> initActivated(store),
              locked |-> initLocked(store, ui.locked)]
    /\ effectDirty' = (initLocked(store, ui.locked) # ui.locked)
    /\ listeners' = Kept(initListeners(store, listeners))
    /\ pollRegistered' = initPoll(store, pollRegistered)
    /\ conv' = NextConv(conv, FALSE, Undefined, initEnable(store), 0)
    /\ store' = initLockdownStore(store, native)
    /\ UNCHANGED <<now, timers, vibrating, last, wipesInWindow, budget,
                   procs>>
    /\ kiosk' = initLockdown(store, kiosk, native)
    /\ UNCHANGED <<native, history>>

(* The process is restarted and App mounts: timers and subscriptions of   *)
(* the old process are gone, initializeApp runs.                          *)
AppStart ==
    /\ timers' = <<>>
    /\ vibrating' = FALSE
    /\ wipesInWindow' = 0
    /\ ui' = [activated |-> initActivated(store),
              locked |-> initLocked(store, FALSE)]
    /\ effectDirty' = (initLocked(store, FALSE) # FALSE)
    /\ listeners' = initListeners(store, 0)
    /\ pollRegistered' = initPoll(store, pollRegistered)
    /\ conv' = NextConv(conv, FALSE, Undefined, initEnable(store), 0)
    /\ store' = initLockdownStore(store, native)
    /\ UNCHANGED <<now, last, budget, procs>>
    /\ kiosk' = initLockdown(store, kiosk, native)
    /\ UNCHANGED <<native, history>>

(* App's one-second interval notices that the stored flag differs from    *)
(* isLocked.                                                              *)
LockCheckTick ==
    /\ isDeviceLocked(store) # ui.locked
    /\ ui' = [ui EXCEPT !.locked = isDeviceLocked(store)]
    /\ effectDirty' = TRUE
    /\ UNCHANGED <<store, now, timers, vibrating, listeners, pollRegistered,
                   last, conv, wipesInWindow, budget, procs>>
    /\ UNCHANGED <<native, kiosk, history>>

(* LockScreen is shown while isLocked is true; the effect of its mount     *)
(* runs initializeDeviceLock, which writes its own key 'device_locked'.   *)
(* loadLockInfo only reads 'lockMessage'.                                 *)
LockScreenMount ==
    /\ ui.locked
    /\ getItem(store, "device_locked") # <<"true">>
    /\ store' = setItem(store, "device_locked", "true")
    /\ UNCHANGED <<now, timers, vibrating, listeners, pollRegistered, ui,
                   effectDirty, last, conv, wipesInWindow, budget, procs>>
    /\ UNCHANGED <<native, kiosk, history>>

(* The step that `fault` names exists in the handler of `chan` for this   *)
(* report: only the poll fetches, a fetch that fails brings no report,    *)
(* only a dispatched command notifies, only the poll and the foreground   *)
(* listener acknowledge.                                                  *)
Applies(chan, report, fault) ==
    CASE fault = "none" -> TRUE
      [] fault = "fetch" -> chan = "poll" /\ report = NoReport
      [] fault = "notification" -> Notifies(report.command)
      [] fault = "ack" ->
            \/ chan = "poll" /\ HasCommand(report.command)
            \/ chan = "fg" /\ PushHasCommand(report.command)
      [] fault = "keyRead" -> chan = "poll" /\ report = NoReport
      [] fault \in {"write", "syncWrite", "storage"} -> chan = "poll"

Deliveries(chan) ==
    {d \in Reports \X Faults : Applies(chan, d[1], d[2])}

PollDeliveries == Deliveries("poll")

FgDeliveries == Deliveries("fg")

RespDeliveries == Deliveries("resp")

Poll ==
    /\ pollRegistered
    /\ budget > 0
    /\ \E d \in PollDeliveries : PollCycle(d[1], d[2])

PushFg ==
    /\ listeners >= 1
    /\ budget > 0
    /\ \E d \in FgDeliveries : PushForeground(d[1], d[2])

PushResp ==
    /\ listeners >= 1
    /\ budget > 0
    /\ \E d \in RespDeliveries : PushResponse(d[1], d[2])

(* ConvSpec: the commands lock, reminder and unlock, delivered without    *)
(* faults.                                                                *)
SeqReports ==
    {[command |-> "lock", lockMessage |-> "Pay EMI"],
     [command |-> "reminder", lockMessage |-> Undefined],
     [command |-> "unlock", lockMessage |-> Undefined]}

SeqPoll ==
    /\ pollRegistered
    /\ budget > 0
    /\ \E r \in SeqReports : PollCycle(r, "none")

SeqPushFg ==
    /\ listeners >= 1
    /\ budget > 0
    /\ \E d \in SeqReports : PushForeground(d, "none")

SeqPushResp ==
    /\ listeners >= 1
    /\ budget > 0
    /\ \E d \in SeqReports : PushResponse(d, "none")

Next ==
    \/ Poll
    \/ PushFg
    \/ PushResp
    \/ TimerFire
    \/ Tick
    \/ \E k \in ActivationKeys : Activate(k)
    \/ Deactivate
    \/ RunEffect
    \/ AppStart
    \/ LockCheckTick

Spec == Init /\ [][Next]_vars

ConvInit ==
    /\ store = EmptyStore
    /\ now = 0
    /\ timers = <<>>
    /\ vibrating = FALSE
    /\ listeners = 0
    /\ pollRegistered = FALSE
    /\ ui = [activated |-> FALSE, locked |-> FALSE]
    /\ effectDirty = FALSE
    /\ last = NoLast
    /\ conv = [stage |-> 0, en |-> 0, dis |-> 0]
    /\ wipesInWindow = 0
    /\ budget = MaxSeqDeliveries
    /\ procs = [p \in Channels |-> IdleProc]
    /\ native = "absent"
    /\ kiosk = NoKiosk
    /\ history = <<>>

ConvNext ==
    \/ SeqPoll
    \/ SeqPushFg
    \/ SeqPushResp
    \/ \E k \in ActivationKeys : Activate(k)
    \/ Deactivate
    \/ RunEffect
    \/ AppStart
    \/ LockCheckTick

ConvSpec == ConvInit /\ [][ConvNext]_vars

----------------------------------------------------------------------------
(* FaultSpec: the deliveries to an activated device whose app has         *)
(* started, with every step of the poll task that can reject,             *)
(* AsyncStorage included.                                                 *)

MaxFaultCycles == 2     \* deliveries in one behaviour of FaultSpec

FaultDeliveries ==
    {d \in Reports \X (Faults \cup StoreFaults) : Applies("poll", d[1], d[2])}

FaultPoll ==
    /\ pollRegistered
    /\ budget > 0
    /\ \E d \in FaultDeliveries : PollCycle(d[1], d[2])

FaultInit ==
    /\ store = setItem(setItem(EmptyStore, "keyId", "ABC123"),
                       "activationKey", "ABC123")
    /\ now = 0
    /\ timers = <<>>
    /\ vibrating = FALSE
    /\ listeners = 1
    /\ pollRegistered = TRUE
    /\ ui = [activated |-> TRUE, locked |-> FALSE]
    /\ effectDirty = FALSE
    /\ last = NoLast
    /\ conv = [stage |-> 0, en |-> 0, dis |-> 0]
    /\ wipesInWindow = 0
    /\ budget = MaxFaultCycles
    /\ procs = [p \in Channels |-> IdleProc]
    /\ native = "absent"
    /\ kiosk = NoKiosk
    /\ history = <<>>

FaultNext ==
    \/ FaultPoll
    \/ PushFg
    \/ PushResp
    \/ TimerFire
    \/ Tick

FaultSpec == FaultInit /\ [][FaultNext]_vars

----------------------------------------------------------------------------
(* LockdownSpec: the commands lock, reminder and unlock delivered to a    *)
(* device whose DeviceAdminModule is absent, unprivileged, working or     *)
(* failing.                                                               *)

MaxLockdownDeliveries == 2  \* deliveries in one behaviour of LockdownSpec

(* The user grants device admin in the system dialog that                 *)
(* requestDeviceAdmin() opened.                                           *)
GrantAdmin ==
    /\ native \in {"noAdmin", "noAdminCallsReturn"}
    /\ ui.activated
    /\ native' = "ok"
    /\ UNCHANGED <<store, now, timers, vibrating, listeners, pollRegistered,
                   ui, effectDirty, last, conv, wipesInWindow, budget, procs,
                   kiosk, history>>

LockdownInit ==
    /\ store = EmptyStore
    /\ now = 0
    /\ timers = <<>>
    /\ vibrating = FALSE
    /\ listeners = 0
    /\ pollRegistered = FALSE
    /\ ui = [activated |-> FALSE, locked |-> FALSE]
    /\ effectDirty = FALSE
    /\ last = NoLast
    /\ conv = [stage |-> 0, en |-> 0, dis |-> 0]
    /\ wipesInWindow = 0
    /\ budget = MaxLockdownDeliveries
    /\ procs = [p \in Channels |-> IdleProc]
    /\ native \in Natives
    /\ kiosk = NoKiosk
    /\ history = <<>>

LockdownNext ==
    \/ SeqPoll
    \/ SeqPushFg
    \/ SeqPushResp
    \/ \E k \in ActivationKeys : Activate(k)
    \/ RunEffect
    \/ AppStart
    \/ LockCheckTick
    \/ GrantAdmin

LockdownSpec == LockdownInit /\ [][LockdownNext]_vars

----------------------------------------------------------------------------
(* ScreenSpec: the screens beside the deliveries.  The user activates and *)
(* deactivates, the lock screen mounts, and the commands that move the    *)
(* lock state, or wipe it, arrive on every channel.                       *)

MaxScreenDeliveries == 3    \* deliveries in one behaviour of ScreenSpec

ScreenReports ==
    SeqReports \cup
        {[command |-> c, lockMessage |-> Undefined] :
            c \in {"expired", "ring", "reset"}}

ScreenPoll ==
    /\ pollRegistered
    /\ budget > 0
    /\ \E r \in ScreenReports : PollCycle(r, "none")

ScreenPushFg ==
    /\ listeners >= 1
    /\ budget > 0
    /\ \E d \in ScreenReports : PushForeground(d, "none")

ScreenPushResp ==
    /\ listeners >= 1
    /\ budget > 0
    /\ \E d \in ScreenReports : PushResponse(d, "none")

ScreenInit ==
    /\ store = EmptyStore
    /\ now = 0
    /\ timers = <<>>
    /\ vibrating = FALSE
    /\ listeners = 0
    /\ pollRegistered = FALSE
    /\ ui = [activated |-> FALSE, locked |-> FALSE]
    /\ effectDirty = FALSE
    /\ last = NoLast
    /\ conv = [stage |-> 0, en |-> 0, dis |-> 0]
    /\ wipesInWindow = 0
    /\ budget = MaxScreenDeliveries
    /\ procs = [p \in Channels |-> IdleProc]
    /\ native = "absent"
    /\ kiosk = NoKiosk
    /\ history = <<>>

ScreenNext ==
    \/ ScreenPoll
    \/ ScreenPushFg
    \/ ScreenPushResp
    \/ TimerFire
    \/ Tick
    \/ \E k \in ActivationKeys : Activate(k)
    \/ Deactivate
    \/ RunEffect
    \/ AppStart
    \/ LockCheckTick
    \/ LockScreenMount

ScreenSpec == ScreenInit /\ [][ScreenNext]_vars

----------------------------------------------------------------------------
(* LifecycleSpec: the life of ScreenSpec on a device with any native      *)
(* module: activation, deliveries on every channel, restarts, the screens *)
(* and the scheduled wipe, with the OS lockdown the calls bring about.    *)

MaxLifecycleDeliveries == 2

LifecycleInit ==
    /\ store = EmptyStore
    /\ now = 0
    /\ timers = <<>>
    /\ vibrating = FALSE
    /\ listeners = 0
    /\ pollRegistered = FALSE
    /\ ui = [activated |-> FALSE, locked |-> FALSE]
    /\ effectDirty = FALSE
    /\ last = NoLast
    /\ conv = [stage |-> 0, en |-> 0, dis |-> 0]
    /\ wipesInWindow = 0
    /\ budget = MaxLifecycleDeliveries
    /\ procs = [p \in Channels |-> IdleProc]
    /\ native \in Natives
    /\ kiosk = NoKiosk
    /\ history = <<>>

LifecycleSpec == LifecycleInit /\ [][ScreenNext]_vars

----------------------------------------------------------------------------
(* KioskSpec: enableFullLockdown() and disableFullLockdown() called one   *)
(* after another on an activated device, on every kind of native module,  *)
(* which may start or stop failing between two calls.                     *)

MaxKioskCalls == 3      \* lockdown calls in one behaviour of KioskSpec

(* enableFullLockdown() is called; `last` counts the calls made in a row: *)
(* enable, enable, ... and then disable, disable, ...                     *)
CallEnable ==
    /\ budget > 0
    /\ budget' = budget - 1
    /\ kiosk' = enableFullLockdown(kiosk, native)
    /\ store' = enableFullLockdownStore(store, native)
    /\ last' = [NoLast EXCEPT
                    !.enable = IF last.disable = 0 THEN Count(last.enable + 1)
                               ELSE 1]
    /\ UNCHANGED <<now, timers, vibrating, listeners, pollRegistered, ui,
                   effectDirty, conv, wipesInWindow, procs, native, history>>

(* disableFullLockdown() is called. *)
CallDisable ==
    /\ budget > 0
    /\ budget' = budget - 1
    /\ kiosk' = disableFullLockdown(kiosk, native)
    /\ store' = disableFullLockdownStore(store, native)
    /\ last' = [NoLast EXCEPT !.enable = last.enable,
                              !.disable = Count(last.disable + 1)]
    /\ UNCHANGED <<now, timers, vibrating, listeners, pollRegistered, ui,
                   effectDirty, conv, wipesInWindow, procs, native, history>>

(* Between two calls the module starts or stops failing: device admin is  *)
(* granted or revoked, a native call starts or stops throwing.            *)
NativeChanges ==
    /\ native # "absent"
    /\ \E n \in Natives \ {"absent", native} : native' = n
    /\ last' = NoLast
    /\ UNCHANGED <<store, now, timers, vibrating, listeners, pollRegistered,
                   ui, effectDirty, conv, wipesInWindow, budget, procs,
                   kiosk, history>>

KioskInit ==
    /\ store = setItem(setItem(EmptyStore, "keyId", "ABC123"),
                       "activationKey", "ABC123")
    /\ now = 0
    /\ timers = <<>>
    /\ vibrating = FALSE
    /\ listeners = 1
    /\ pollRegistered = TRUE
    /\ ui = [activated |-> TRUE, locked |-> FALSE]
    /\ effectDirty = FALSE
    /\ last = NoLast
    /\ conv = [stage |-> 0, en |-> 0, dis |-> 0]
    /\ wipesInWindow = 0
    /\ budget = MaxKioskCalls
    /\ procs = [p \in Channels |-> IdleProc]
    /\ native \in Natives
    /\ kiosk = NoKiosk
    /\ history = <<>>

KioskNext ==
    \/ CallEnable
    \/ CallDisable
    \/ NativeChanges

KioskSpec == KioskInit /\ [][KioskNext]_vars

----------------------------------------------------------------------------
(* RingSpec: Find/Ring commands arrive on every channel of an activated   *)
(* device whose app has started, one second of the clock at a time.       *)

MaxRingDeliveries == 2  \* deliveries in one behaviour of RingSpec
RingTickMs == 1000      \* granularity of the clock in RingSpec (ms)
MaxRingNow == 12000     \* the clock of RingSpec stops advancing here (ms)

(* Vibration.vibrate([0, 500, 200, 500, 200, 500, 200, 500], false): the  *)
(* pattern plays once, for the sum of its entries.                        *)
RingPatternMs == 2600

RingReports == {[command |-> "ring", lockMessage |-> Undefined]}

RingDeliveries(chan) ==
    {d \in RingReports \X Faults : Applies(chan, d[1], d[2])}

RingPoll ==
    /\ pollRegistered
    /\ budget > 0
    /\ \E d \in RingDeliveries("poll") : PollCycle(d[1], d[2])

RingPushFg ==
    /\ listeners >= 1
    /\ budget > 0
    /\ \E d \in RingDeliveries("fg") : PushForeground(d[1], d[2])

RingPushResp ==
    /\ listeners >= 1
    /\ budget > 0
    /\ \E d \in RingDeliveries("resp") : PushResponse(d[1], d[2])

(* Time passes while no callback is due. *)
RingTick ==
    /\ now + RingTickMs <= MaxRingNow
    /\ timers # <<>> => Head(timers).due > now
    /\ now' = now + RingTickMs
    /\ UNCHANGED <<store, timers, vibrating, listeners, pollRegistered, ui,
                   effectDirty, last, conv, wipesInWindow, budget, procs>>
    /\ UNCHANGED <<native, kiosk, history>>

RingInit ==
    /\ store = setItem(setItem(EmptyStore, "keyId", "ABC123"),
                       "activationKey", "ABC123")
    /\ now = 0
    /\ timers = <<>>
    /\ vibrating = FALSE
    /\ listeners = 1
    /\ pollRegistered = TRUE
    /\ ui = [activated |-> TRUE, locked |-> FALSE]
    /\ effectDirty = FALSE
    /\ last = NoLast
    /\ conv = [stage |-> 0, en |-> 0, dis |-> 0]
    /\ wipesInWindow = 0
    /\ budget = MaxRingDeliveries
    /\ procs = [p \in Channels |-> IdleProc]
    /\ native = "absent"
    /\ kiosk = NoKiosk
    /\ history = <<>>

RingNext ==
    \/ RingPoll
    \/ RingPushFg
    \/ RingPushResp
    \/ TimerFire
    \/ RingTick

RingSpec == RingInit /\ [][RingNext]_vars

----------------------------------------------------------------------------
(* DispatchSpec: handleCommand is called with one command after another   *)
(* on an activated, unlocked device.  No time passes between the calls,   *)
(* so a scheduled performFactoryReset does not fire.                      *)

MaxDispatches == 3

(* One call of handleCommand(command, status): the switch writes          *)
(* AsyncStorage, rings and schedules, then sendLocalNotification resolves *)
(* or rejects.                                                            *)
Dispatch(report, notifOK) ==
    /\ budget > 0
    /\ budget' = budget - 1
    /\ Notifies(report.command) \/ notifOK
    /\ store' = hcStore(store, report.command, report.lockMessage)
    /\ timers' = hcTimers(timers, report.command, now, notifOK)
    /\ vibrating' = hcVibrating(vibrating, report.command)
    /\ last' = [NoLast EXCEPT !.cmd = report.command,
                              !.msg = report.lockMessage,
                              !.dispatched = TRUE,
                              !.dispatchOK = hcOK(report.command, notifOK),
                              !.alert = hcAlert(report.command, notifOK)]
    /\ history' = Append(history, report)
    /\ UNCHANGED <<now, listeners, pollRegistered, ui, effectDirty, conv,
                   wipesInWindow, procs, native, kiosk>>

DispatchInit ==
    /\ store = setItem(setItem(EmptyStore, "keyId", "ABC123"),
                       "activationKey", "ABC123")
    /\ now = 0
    /\ timers = <<>>
    /\ vibrating = FALSE
    /\ listeners = 0
    /\ pollRegistered = FALSE
    /\ ui = [activated |-> TRUE, locked |-> FALSE]
    /\ effectDirty = FALSE
    /\ last = NoLast
    /\ conv = [stage |-> 0, en |-> 0, dis |-> 0]
    /\ wipesInWindow = 0
    /\ budget = MaxDispatches
    /\ procs = [p \in Channels |-> IdleProc]
    /\ native = "absent"
    /\ kiosk = NoKiosk
    /\ history = <<>>

DispatchNext ==
    \E report \in Reports, notifOK \in BOOLEAN : Dispatch(report, notifOK)

DispatchSpec == DispatchInit /\ [][DispatchNext]_vars

----------------------------------------------------------------------------
(* RetrySpec: the registered task runs interval after interval on an      *)
(* activated device, for as long as the device lives.  The OS keeps       *)
(* running the task (stopOnTerminate: false, startOnBoot: true), so the   *)
(* poll is weakly fair; whether a fetch or a notification succeeds is up  *)
(* to the environment.                                                    *)

RetryDeliveries ==
    {d \in (SeqReports \cup {NoReport}) \X Faults :
        Applies("poll", d[1], d[2])}

RetryPoll ==
    /\ pollRegistered
    /\ budget > 0
    /\ \E d \in RetryDeliveries : PollCycle(d[1], d[2])

(* The minimum interval of the registered task has passed: the OS may     *)
(* run it again.                                                          *)
NextInterval ==
    /\ pollRegistered
    /\ budget = 0
    /\ budget' = 1
    /\ UNCHANGED <<store, now, timers, vibrating, listeners, pollRegistered,
                   ui, effectDirty, last, conv, wipesInWindow, procs>>
    /\ UNCHANGED <<native, kiosk, history>>

RetryInit ==
    /\ store = setItem(setItem(EmptyStore, "keyId", "ABC123"),
                       "activationKey", "ABC123")
    /\ now = 0
    /\ timers = <<>>
    /\ vibrating = FALSE
    /\ listeners = 1
    /\ pollRegistered = TRUE
    /\ ui = [activated |-> TRUE, locked |-> FALSE]
    /\ effectDirty = FALSE
    /\ last = NoLast
    /\ conv = [stage |-> 0, en |-> 0, dis |-> 0]
    /\ wipesInWindow = 0
    /\ budget = 1
    /\ procs = [p \in Channels |-> IdleProc]
    /\ native = "absent"
    /\ kiosk = NoKiosk
    /\ history = <<>>

RetryNext ==
    \/ RetryPoll
    \/ NextInterval
    \/ Tick

RetrySpec ==
    /\ RetryInit
    /\ [][RetryNext]_vars
    /\ WF_vars(RetryPoll)
    /\ WF_vars(NextInterval)

----------------------------------------------------------------------------
(* RaceSpec: the same handlers, one action per turn of the event loop.     *)
(* An await on AsyncStorage, on the network or on the notification         *)
(* service ends a turn; the call it awaits takes effect when it is issued. *)

MaxRuns == 1            \* executions of each handler in one behaviour
MaxRaceTicks == 1       \* steps of the clock in one behaviour of RaceSpec

FetchTimeoutMs == 25000 \* setTimeout(() => controller.abort(), 25000)

(* The timeout of the poll task: scheduled before the fetch, cleared when *)
(* the fetch settles.                                                     *)
AbortTimer(t) == [kind |-> "abort", due |-> t + FetchTimeoutMs]

clearTimeout(tm) == SelectSeq(tm, LAMBDA x : x.kind # "abort")

RaceReports ==
    {[command |-> "lock", lockMessage |-> "Pay EMI"],
     [command |-> "unlock", lockMessage |-> Undefined]}

InFlight(pr) == pr.pc \notin {"idle", "done"}

(* The first and the second AsyncStorage call of handleCommand. *)
hcFirst(st, command) ==
    CASE command = "lock" -> setItem(st, "isLocked", "true")
      [] command \in {"unlock", "expired"} -> setItem(st, "isLocked", "false")
      [] OTHER -> st

hcSecond(st, command, lockMessage) ==
    CASE command = "lock" -> setItem(st, "lockMessage", OrEmpty(lockMessage))
      [] command \in {"unlock", "expired"} -> removeItem(st, "lockMessage")
      [] OTHER -> st

(* Handler p starts an execution: it learns who is running beside it. *)
Started(p, pc, key) ==
    LET beside == {q \in Channels \ {p} : InFlight(procs[q])}
    IN  [q \in Channels |->
            IF q = p
            THEN [pc |-> pc, cmd |-> Undefined, msg |-> Undefined,
                  key |-> key, en |-> 0, dis |-> 0, with |-> beside,
                  runs |-> procs[p].runs + 1, expired |-> FALSE,
                  out |-> "None"]
            ELSE IF q \in beside
                 THEN [procs[q] EXCEPT !.with = @ \cup {p}]
                 ELSE [procs[q] EXCEPT !.with = @ \ {p}]]

RaceUnchanged ==
    UNCHANGED <<now, timers, vibrating, listeners, pollRegistered, last,
                conv, wipesInWindow, budget, native, history>>

(* The task starts and reads 'activationKey'; with a key it schedules    *)
(* the abort and issues the fetch.                                        *)
RacePollStart ==
    /\ pollRegistered
    /\ ~InFlight(procs["poll"])
    /\ procs["poll"].runs < MaxRuns
    /\ procs' =
        IF getItem(store, "activationKey") = <<>>
        THEN [Started("poll", "done", <<>>) EXCEPT !["poll"].out = "NoData"]
        ELSE Started("poll", "fetch", getItem(store, "activationKey"))
    /\ timers' = IF getItem(store, "activationKey") = <<>> THEN timers
                 ELSE Append(timers, AbortTimer(now))
    /\ UNCHANGED <<store, ui, effectDirty, now, vibrating, listeners,
                   pollRegistered, last, conv, wipesInWindow, budget>>
    /\ UNCHANGED <<native, kiosk, history>>

(* The status arrives, however late: the timeout is cleared and           *)
(* handleCommand makes its first write, or, with no command,              *)
(* 'deviceStatus' is written.                                             *)
RacePollResponse(report) ==
    /\ procs["poll"].pc = "fetch"
    /\ procs' =
        [procs EXCEPT !["poll"].cmd = report.command,
                      !["poll"].msg = report.lockMessage,
                      !["poll"].pc = IF HasCommand(report.command)
                                     THEN "second" ELSE "save"]
    /\ store' = IF HasCommand(report.command)
                THEN hcFirst(store, report.command)
                ELSE setItem(store, "deviceStatus", report)
    /\ timers' = clearTimeout(timers)
    /\ UNCHANGED <<ui, effectDirty, now, vibrating, listeners,
                   pollRegistered, last, conv, wipesInWindow, budget>>
    /\ UNCHANGED <<native, kiosk, history>>

(* The fetch rejects (no network, HTTP error): the timeout is cleared,    *)
(* 'lastSyncError' is written and the task returns Failed.                *)
RacePollFetchFailed ==
    /\ procs["poll"].pc = "fetch"
    /\ procs' = [procs EXCEPT !["poll"].pc = "done",
                              !["poll"].out = "Failed"]
    /\ store' = setItem(store, "lastSyncError",
                        [error |-> ErrorDetail("fetch"), timestamp |-> now])
    /\ timers' = clearTimeout(timers)
    /\ UNCHANGED <<ui, effectDirty, now, vibrating, listeners,
                   pollRegistered, last, conv, wipesInWindow, budget>>
    /\ UNCHANGED <<native, kiosk, history>>

(* The timeout callback runs while the fetch is pending:                  *)
(* controller.abort().  deviceAPI.getDeviceStatus(key) is api.get(url),   *)
(* made without controller.signal on an axios instance that sets no       *)
(* timeout, so the abort settles nothing: the task keeps awaiting.        *)
RaceAbort ==
    /\ timers # <<>>
    /\ Head(timers).kind = "abort"
    /\ Head(timers).due <= now
    /\ timers' = Tail(timers)
    /\ procs' = [procs EXCEPT !["poll"].expired = TRUE]
    /\ UNCHANGED <<store, ui, effectDirty, now, vibrating, listeners,
                   pollRegistered, last, conv, wipesInWindow, budget>>
    /\ UNCHANGED <<native, kiosk, history>>

(* Time passes while no callback is due. *)
RaceTick ==
    /\ now < MaxRaceTicks * FetchTimeoutMs
    /\ timers # <<>> => Head(timers).due > now
    /\ now' = now + FetchTimeoutMs
    /\ UNCHANGED <<store, ui, effectDirty, procs, timers, vibrating,
                   listeners, pollRegistered, last, conv, wipesInWindow,
                   budget>>
    /\ UNCHANGED <<native, kiosk, history>>

(* A push arrives at a listener; handleCommand makes its first write. *)
RacePushStart(p, data) ==
    /\ p \in {"fg", "resp"}
    /\ listeners >= 1
    /\ ~InFlight(procs[p])
    /\ procs[p].runs < MaxRuns
    /\ PushHasCommand(data.command)
    /\ procs' =
        [Started(p, "second", <<>>) EXCEPT ![p].cmd = data.command,
                                           ![p].msg = data.lockMessage]
    /\ store' = hcFirst(store, data.command)
    /\ UNCHANGED <<ui, effectDirty>>
    /\ RaceUnchanged
    /\ UNCHANGED kiosk

(* handleCommand makes its second write. *)
RaceSecond(p) ==
    /\ procs[p].pc = "second"
    /\ store' = hcSecond(store, procs[p].cmd, procs[p].msg)
    /\ procs' = [procs EXCEPT ![p].pc = "notify"]
    /\ UNCHANGED <<ui, effectDirty>>
    /\ RaceUnchanged
    /\ UNCHANGED kiosk

(* handleCommand schedules its notification. *)
RaceNotify(p) ==
    /\ procs[p].pc = "notify"
    /\ procs' = [procs EXCEPT ![p].pc = "notified"]
    /\ UNCHANGED <<store, ui, effectDirty>>
    /\ RaceUnchanged
    /\ UNCHANGED kiosk

(* handleCommand has returned.  The poll sends its acknowledgement; a     *)
(* listener calls onCommandReceived, and the foreground listener reads    *)
(* the key for its acknowledgement.                                       *)
RaceDispatched(p) ==
    /\ procs[p].pc = "notified"
    /\ IF p = "poll"
       THEN /\ procs' = [procs EXCEPT ![p].pc = "acking"]
            /\ UNCHANGED <<ui, effectDirty>>
       ELSE /\ procs' =
                [procs EXCEPT
                    ![p].en = cbEnable(procs[p].cmd),
                    ![p].dis = cbDisable(procs[p].cmd),
                    ![p].key = IF p = "fg" THEN PushAckKey(store) ELSE <<>>,
                    ![p].pc = IF p = "fg" /\ PushAckKey(store) # <<>>
                              THEN "acking" ELSE "done"]
            /\ ui' = [ui EXCEPT !.locked = cbLocked(ui.locked, procs[p].cmd)]
            /\ effectDirty' =
                (effectDirty \/ cbLocked(ui.locked, procs[p].cmd) # ui.locked)
    /\ store' = IF p = "poll" THEN store
                ELSE cbLockdownStore(store, native, cbEnable(procs[p].cmd),
                                     cbDisable(procs[p].cmd))
    /\ RaceUnchanged
    /\ kiosk' = IF p = "poll" THEN kiosk
                ELSE cbLockdown(kiosk, native, cbEnable(procs[p].cmd),
                                cbDisable(procs[p].cmd))

(* The acknowledgement request ends; the poll writes 'deviceStatus'. *)
RaceAcked(p) ==
    /\ procs[p].pc = "acking"
    /\ IF p = "poll"
       THEN /\ store' = setItem(store, "deviceStatus",
                                [command |-> procs[p].cmd,
                                 lockMessage |-> procs[p].msg])
            /\ procs' = [procs EXCEPT ![p].pc = "save"]
       ELSE /\ procs' = [procs EXCEPT ![p].pc = "done"]
            /\ UNCHANGED store
    /\ UNCHANGED <<ui, effectDirty>>
    /\ RaceUnchanged
    /\ UNCHANGED kiosk

(* The poll writes 'lastSyncTime' and returns NewData. *)
RacePollSave ==
    /\ procs["poll"].pc = "save"
    /\ store' = setItem(store, "lastSyncTime", now)
    /\ procs' = [procs EXCEPT !["poll"].pc = "done",
                              !["poll"].out = "NewData"]
    /\ UNCHANGED <<ui, effectDirty>>
    /\ RaceUnchanged
    /\ UNCHANGED kiosk

(* An activated device whose app has started: Activate, then AppStart. *)
RaceInit ==
    /\ store = setItem(setItem(EmptyStore, "keyId", "ABC123"),
                       "activationKey", "ABC123")
    /\ now = 0
    /\ timers = <<>>
    /\ vibrating = FALSE
    /\ listeners = 1
    /\ pollRegistered = TRUE
    /\ ui = [activated |-> TRUE, locked |-> FALSE]
    /\ effectDirty = FALSE
    /\ last = NoLast
    /\ conv = [stage |-> 0, en |-> 0, dis |-> 0]
    /\ wipesInWindow = 0
    /\ budget = MaxDeliveries
    /\ procs = [p \in Channels |-> IdleProc]
    /\ native = "absent"
    /\ kiosk = NoKiosk
    /\ history = <<>>

RaceNext ==
    \/ RacePollStart
    \/ \E r \in RaceReports : RacePollResponse(r)
    \/ RacePollFetchFailed
    \/ RaceAbort
    \/ RaceTick
    \/ \E p \in {"fg", "resp"}, d \in RaceReports : RacePushStart(p, d)
    \/ \E p \in Channels : RaceSecond(p)
    \/ \E p \in Channels : RaceNotify(p)
    \/ \E p \in Channels : RaceDispatched(p)
    \/ \E p \in Channels : RaceAcked(p)
    \/ RacePollSave

RaceSpec == RaceInit /\ [][RaceNext]_vars

----------------------------------------------------------------------------
(* WipeSpec: the handlers of RaceSpec on a device where a 'reset' has     *)
(* been dispatched: its performFactoryReset is pending and fires while    *)
(* the handlers run.                                                      *)

(* The callback that 'reset' scheduled runs: performFactoryReset(). *)
RaceWipe ==
    /\ timers # <<>>
    /\ Head(timers).kind = "reset"
    /\ TimerFire

(* RaceInit after a 'reset' was dispatched at time 0. *)
WipeInit ==
    /\ store = setItem(setItem(EmptyStore, "keyId", "ABC123"),
                       "activationKey", "ABC123")
    /\ now = 0
    /\ timers = hcTimers(<<>>, "reset", 0, TRUE)
    /\ vibrating = FALSE
    /\ listeners = 1
    /\ pollRegistered = TRUE
    /\ ui = [activated |-> TRUE, locked |-> FALSE]
    /\ effectDirty = FALSE
    /\ last = NoLast
    /\ conv = [stage |-> 0, en |-> 0, dis |-> 0]
    /\ wipesInWindow = 0
    /\ budget = MaxDeliveries
    /\ procs = [p \in Channels |-> IdleProc]
    /\ native = "absent"
    /\ kiosk = NoKiosk
    /\ history = <<>>

WipeNext ==
    \/ RaceNext
    \/ RaceWipe

WipeSpec == WipeInit /\ [][WipeNext]_vars

----------------------------------------------------------------------------
(* The properties *)

Delivered == budget' # budget

IsPrefix(a, b) == Len(a) <= Len(b) /\ SubSeq(b, 1, Len(a)) = a

(* C1: a poll cycle whose report repeats the (identity, command, message) *)
(* that the poll cycle just before dispatched and acknowledged does not   *)
(* dispatch, sends no acknowledgement and returns NoData.                 *)
C1_PollIdempotent ==
    (last.chan = "poll" /\ last.dupOf = "poll") =>
        /\ ~last.dispatched
        /\ last.ack = <<>>
        /\ last.outcome = "NoData"

(* C2: a delivery on any channel that finds no identity stored makes no   *)
(* Dispatcher call, sends no acknowledgement and writes nothing; the poll *)
(* returns NoData.                                                        *)
C2_NoIdentityNoEffect ==
    (last.chan \in Channels /\ last.id = <<>>) =>
        /\ ~last.dispatched
        /\ last.ack = <<>>
        /\ ~last.wrote
        /\ last.chan = "poll" => last.outcome = "NoData"

(* C3: two handler executions that ran beside each other with the same    *)
(* lock or unlock command have called the lockdown capability exactly     *)
(* once between them.                                                     *)
C3_RaceOneLockdown ==
    \A p, q \in Channels :
        (/\ p # q
         /\ procs[p].pc = "done"
         /\ procs[q].pc = "done"
         /\ q \in procs[p].with
         /\ procs[p].cmd = procs[q].cmd
         /\ procs[p].cmd \in {"lock", "unlock"})
        => procs[p].en + procs[p].dis + procs[q].en + procs[q].dis = 1

(* C4: a command that one channel (poll or push) dispatched and           *)
(* acknowledged is not dispatched or acknowledged again when the other    *)
(* channel delivers it next.                                              *)
C4_PushPollOnce ==
    (/\ last.chan \in Channels
     /\ last.dupOf # "none"
     /\ (last.dupOf = "poll") # (last.chan = "poll")) =>
        /\ ~last.dispatched
        /\ last.ack = <<>>

(* C5: the Reset commands dispatched while a wipe is pending end in one   *)
(* run of performFactoryReset.                                            *)
C5_OneWipePerWindow == wipesInWindow <= 1

(* C6: no delivery of a command removes or delays a pending timer, and a  *)
(* pending reset timer leaves the queue only by firing, which wipes the   *)
(* store, or with the process.                                            *)
C6_ResetIrreversible ==
    [][/\ Delivered => IsPrefix(timers, timers')
       /\ Cardinality(PendingResets(timers'))
            < Cardinality(PendingResets(timers)) =>
            \/ /\ store' = EmptyStore
               /\ wipesInWindow' = wipesInWindow + 1
            \/ /\ timers' = <<>>
               /\ listeners' <= 1
               /\ budget' = budget]_vars

(* An unlock was dispatched after a reset, and the wipe has fired since. *)
C6_Witness ==
    /\ last.cmd = "unlock"
    /\ last.dispatchOK
    /\ wipesInWindow = 1
    /\ store = EmptyStore

(* C7: once lock, reminder, unlock have been processed one after another, *)
(* the stored flag is 'false' and the lockdown capability was called      *)
(* twice: one apply, one release.                                         *)
C7_Convergence ==
    conv.stage = 3 =>
        /\ getItem(store, "isLocked") = <<"false">>
        /\ conv.en = 1
        /\ conv.dis = 1

(* C8: a poll cycle that receives 'lock' with message m while unlocked    *)
(* leaves isLocked 'true' and lockMessage m (or ''), and sends one        *)
(* acknowledgement, for 'lock' and the stored identity.                   *)
C8_LockScenario ==
    [][(/\ Delivered
        /\ last'.chan = "poll"
        /\ last'.cmd = "lock"
        /\ ~isDeviceLocked(store)) =>
            /\ getItem(store', "isLocked") = <<"true">>
            /\ getItem(store', "lockMessage") = <<OrEmpty(last'.msg)>>
            /\ last'.ack = <<[keyId |-> last'.id[1], command |-> "lock"]>>]_vars

(* C9: a poll cycle whose report has no command, or 'none', writes        *)
(* deviceStatus and lastSyncTime and nothing else, dispatches nothing and *)
(* acknowledges nothing.                                                  *)
C9_NoCommandFrame ==
    [][(/\ Delivered
        /\ last'.chan = "poll"
        /\ last'.outcome = "NewData"
        /\ last'.cmd \in {Undefined, "none"}) =>
            /\ store' =
                [store EXCEPT
                    !["deviceStatus"] =
                        <<[command |-> last'.cmd, lockMessage |-> last'.msg]>>,
                    !["lastSyncTime"] = <<now>>]
            /\ ~last'.dispatched
            /\ last'.ack = <<>>
            /\ timers' = timers
            /\ vibrating' = vibrating]_vars

(* A locked device has just polled a report whose command is 'none'. *)
C9_Witness ==
    /\ last.chan = "poll"
    /\ last.outcome = "NewData"
    /\ last.cmd = "none"
    /\ getItem(store, "isLocked") = <<"true">>
    /\ getItem(store, "lockMessage") = <<"Pay EMI">>
    /\ getItem(store, "lastSyncTime") = <<now>>

(* C10: on every channel, a delivery of a command with an identity stored *)
(* sends the acknowledgement of that command and identity exactly when    *)
(* the dispatch succeeded.                                                *)
C10_AckProtocol ==
    (last.chan \in Channels /\ last.id # <<>> /\ HasCommand(last.cmd)) =>
        /\ last.dispatchOK =>
            last.ack = <<[keyId |-> last.id[1], command |-> last.cmd]>>
        /\ ~last.dispatchOK => last.ack = <<>>

(* C11: a poll cycle ends with NoData, NewData or Failed and never with   *)
(* an exception; one that ends Failed has stored the last-error record    *)
(* with the error detail and the time of the cycle.                       *)
C11_NeverThrows ==
    [][(Delivered /\ last'.chan = "poll") =>
        /\ last'.outcome \in {"NoData", "NewData", "Failed"}
        /\ last'.outcome = "Failed" =>
            /\ getItem(store', "lastSyncError") # <<>>
            /\ getItem(store', "lastSyncError")[1].timestamp = now
            /\ getItem(store', "lastSyncError")[1].error
                    \in {"network", "notification", "storage"}]_vars

(* C15: a poll cycle that ends Failed because the fetch failed or the     *)
(* dispatch failed leaves 'lastSyncTime' and 'deviceStatus' as they were. *)
C15_FailedKeepsSync ==
    [][(/\ Delivered
        /\ last'.chan = "poll"
        /\ last'.outcome = "Failed"
        /\ \/ getItem(store', "lastSyncError")[1].error = "network"
           \/ last'.dispatched /\ ~last'.dispatchOK) =>
            /\ getItem(store', "lastSyncTime") = getItem(store, "lastSyncTime")
            /\ getItem(store', "deviceStatus")
                    = getItem(store, "deviceStatus")]_vars

(* A cycle saved the status of a lock; a later one, at a later time,      *)
(* received 'unlock' and failed in its dispatch.                          *)
C15_Witness ==
    /\ last.chan = "poll"
    /\ last.outcome = "Failed"
    /\ last.cmd = "unlock"
    /\ last.dispatched
    /\ getItem(store, "lastSyncError") # <<>>
    /\ getItem(store, "lastSyncTime") = <<0>>
    /\ now > 0
    /\ getItem(store, "deviceStatus")
            = <<[command |-> "lock", lockMessage |-> "Pay EMI"]>>

(* C12: a delivery whose dispatch succeeded and whose one acknowledgement *)
(* request failed keeps what handleCommand wrote; the poll cycle then     *)
(* still saves the status and the sync time, writes no 'lastSyncError'    *)
(* and returns NewData.                                                   *)
C12_AckFailureNonFatal ==
    [][(/\ Delivered
        /\ last'.dispatchOK
        /\ last'.ack # <<>>
        /\ ~last'.acked) =>
            /\ Len(last'.ack) = 1
            /\ getItem(store', "lastSyncError")
                    = getItem(store, "lastSyncError")
            /\ last'.chan = "fg" =>
                    store' = hcStore(store, last'.cmd, last'.msg)
            /\ last'.chan = "poll" =>
                /\ last'.outcome = "NewData"
                /\ store' =
                    [hcStore(store, last'.cmd, last'.msg) EXCEPT
                        !["deviceStatus"] =
                            <<[command |-> last'.cmd,
                               lockMessage |-> last'.msg]>>,
                        !["lastSyncTime"] = <<now>>]]_vars

(* A poll cycle applied a lock; its acknowledgement failed. *)
C12_Witness ==
    /\ last.chan = "poll"
    /\ last.cmd = "lock"
    /\ last.dispatchOK
    /\ last.ack = <<[keyId |-> "ABC123", command |-> "lock"]>>
    /\ ~last.acked
    /\ last.outcome = "NewData"
    /\ isDeviceLocked(store)
    /\ getItem(store, "lastSyncTime") = <<now>>
    /\ getItem(store, "lastSyncError") = <<>>

(* C13: a delivery whose alert could not be sent still counts as          *)
(* dispatched: it is acknowledged where the channel acknowledges, the     *)
(* poll cycle does not end Failed, and a reset still schedules its wipe.  *)
C13_AlertErrorIgnored ==
    [][(Delivered /\ last'.alert = "failed") =>
        /\ last'.dispatchOK
        /\ last'.chan = "poll" =>
            /\ last'.outcome = "NewData"
            /\ last'.ack = <<[keyId |-> last'.id[1], command |-> last'.cmd]>>
        /\ (last'.chan = "fg" /\ last'.id # <<>>) =>
            last'.ack = <<[keyId |-> last'.id[1], command |-> last'.cmd]>>
        /\ last'.cmd = "reset" =>
            timers' = Append(timers, [kind |-> "reset",
                                      due |-> now + ResetDelayMs])]_vars

(* C14: once the 25 s of the fetch timeout have passed with the fetch     *)
(* still pending, the poll cycle has ended, with outcome Failed.          *)
C14_TimeoutAbandons ==
    procs["poll"].expired =>
        /\ procs["poll"].pc = "done"
        /\ procs["poll"].out = "Failed"

(* C16: a delivery that dispatches a command handleCommand has no case    *)
(* for changes no stored key, apart from the poll's own 'deviceStatus'    *)
(* and 'lastSyncTime', schedules no timer, starts no vibration, sends no  *)
(* alert and does not fail.                                               *)
C16_UnknownCommandNoOp ==
    [][(/\ Delivered
        /\ last'.dispatched
        /\ last'.cmd \notin {"lock", "unlock", "reminder", "find", "ring",
                             "expired", "reset"}) =>
            /\ last'.dispatchOK
            /\ last'.alert = "none"
            /\ timers' = timers
            /\ vibrating' = vibrating
            /\ \A k \in StoreKeys \ {"deviceStatus", "lastSyncTime"} :
                    getItem(store', k) = getItem(store, k)
            /\ last'.chan # "poll" => store' = store
            /\ last'.chan = "poll" => last'.outcome = "NewData"]_vars

(* A locked device has just polled the command 'reboot'. *)
C16_Witness ==
    /\ last.chan = "poll"
    /\ last.cmd = "reboot"
    /\ last.dispatched
    /\ last.outcome = "NewData"
    /\ isDeviceLocked(store)
    /\ getItem(store, "lockMessage") = <<"Pay EMI">>
    /\ getItem(store, "deviceStatus")
            = <<[command |-> "reboot", lockMessage |-> Undefined]>>

(* C17: deactivation leaves neither 'activationKey' nor 'keyId' in the    *)
(* store and the lock state at its default; a delivery to a deactivated   *)
(* device applies nothing and acknowledges nothing.                       *)
C17_DeactivationDestroys ==
    [][/\ Deactivate =>
            /\ getItem(store', "activationKey") = <<>>
            /\ getItem(store', "keyId") = <<>>
            /\ ~isDeviceLocked(store')
            /\ getItem(store', "lockMessage") = <<>>
       /\ (Delivered /\ getItem(store, "activationKey") = <<>>) =>
            /\ last'.ack = <<>>
            /\ ~last'.dispatched]_vars

(* What a delivery leaves behind that C18 compares: the stored lock       *)
(* state, sync time and error record, the lockdown calls and the          *)
(* acknowledgement.                                                       *)
Observed(st, l) ==
    [isLocked |-> getItem(st, "isLocked"),
     lockMessage |-> getItem(st, "lockMessage"),
     lastSyncTime |-> getItem(st, "lastSyncTime"),
     lastSyncError |-> getItem(st, "lastSyncError"),
     enable |-> l.enable, disable |-> l.disable, ack |-> l.ack]

(* The values a field of Observed can take after the delivery of r. *)
ObservedValues(f, r) ==
    CASE f = "isLocked" -> {<<>>, <<"true">>, <<"false">>}
      [] f = "lockMessage" -> {<<>>, <<"">>, <<"Pay EMI">>}
      [] f = "lastSyncTime" -> {getItem(store, "lastSyncTime"), <<now>>}
      [] f = "lastSyncError" -> {getItem(store, "lastSyncError")}
      [] f \in {"enable", "disable"} -> {0, 1}
      [] f = "ack" ->
            {<<>>, <<[keyId |-> "ABC123", command |-> r.command]>>}

(* C18: from any state in which both the poll and a push listener can     *)
(* handle a command, handling it by poll and handling it by push leave    *)
(* the same stored lock state, sync time and error record, and make the   *)
(* same lockdown calls and the same acknowledgement.                      *)
C18_ChannelsEquivalent ==
    (/\ pollRegistered
     /\ listeners >= 1
     /\ budget > 0
     /\ getItem(store, "activationKey") # <<>>) =>
        \A r \in SeqReports :
            \A f \in DOMAIN Observed(store, last) :
                \A v \in ObservedValues(f, r) :
                    /\ ENABLED (/\ PollCycle(r, "none")
                                /\ Observed(store', last')[f] = v)
                        <=> ENABLED (/\ PushForeground(r, "none")
                                     /\ Observed(store', last')[f] = v)
                    /\ ENABLED (/\ PollCycle(r, "none")
                                /\ Observed(store', last')[f] = v)
                        <=> ENABLED (/\ PushResponse(r, "none")
                                     /\ Observed(store', last')[f] = v)

(* C19: if poll cycles keep fetching a pending command, then at some      *)
(* point that command has been applied and its acknowledgement has been   *)
(* attempted.                                                             *)
C19_EventuallyApplied ==
    \A r \in SeqReports :
        ([]<>(/\ last.chan = "poll"
              /\ last.cmd = r.command
              /\ last.dispatched))
        => <>(/\ last.chan = "poll"
              /\ last.cmd = r.command
              /\ last.dispatchOK
              /\ last.ack = <<[keyId |-> "ABC123", command |-> r.command]>>)

(* The OS lockdown is not what the command asked for. *)
NotEnforced(command, k) ==
    \/ command = "lock" /\ ~(k.lockTask /\ k.hidden)
    \/ command = "unlock" /\ (k.lockTask \/ k.hidden)

(* C20: a lock or unlock that is dispatched while the OS lockdown cannot  *)
(* be brought to what the command asks for still stores the intended      *)
(* isLocked and lockMessage.                                              *)
C20_StateAdvancesAnyway ==
    [][(/\ Delivered
        /\ last'.dispatched
        /\ last'.cmd \in {"lock", "unlock"}
        /\ NotEnforced(last'.cmd, kiosk')) =>
            /\ last'.cmd = "lock" =>
                /\ getItem(store', "isLocked") = <<"true">>
                /\ getItem(store', "lockMessage") = <<OrEmpty(last'.msg)>>
            /\ last'.cmd = "unlock" =>
                /\ getItem(store', "isLocked") = <<"false">>
                /\ getItem(store', "lockMessage") = <<>>]_vars

(* A push delivered 'lock' on a device that hides the app but cannot      *)
(* enter lock task mode: the lockdown call was made and failed in part,   *)
(* and the lock is stored.                                                *)
C20_Witness ==
    /\ native = "kioskThrows"
    /\ last.chan = "fg"
    /\ last.cmd = "lock"
    /\ last.enable = 1
    /\ kiosk = [lockTask |-> FALSE, hidden |-> TRUE, statusBarOff |-> TRUE,
                restricted |-> TRUE]
    /\ getItem(store, "kioskModeActive") = <<>>
    /\ getItem(store, "appHidden") = <<"true">>
    /\ isDeviceLocked(store)
    /\ getItem(store, "lockMessage") = <<"Pay EMI">>

(* C21: the stored locked flag and lockMessage change only in a delivery  *)
(* that dispatched a command, by the writes of handleCommand, or when the *)
(* reset timer fires and wipes the store; no screen changes them.         *)
C21_SingleWriter ==
    [][(\/ getItem(store', "isLocked") # getItem(store, "isLocked")
        \/ getItem(store', "lockMessage") # getItem(store, "lockMessage")) =>
            \/ /\ Delivered
               /\ last'.dispatched
               /\ \A k \in {"isLocked", "lockMessage"} :
                    getItem(store', k)
                        = getItem(hcStore(store, last'.cmd, last'.msg), k)
            \/ /\ store' = EmptyStore
               /\ wipesInWindow' = wipesInWindow + 1]_vars

(* The lock screen has written its own key, the user has deactivated,     *)
(* and the lock state is still what the last lock command stored.         *)
C21_Witness ==
    /\ getItem(store, "device_locked") = <<"true">>
    /\ getItem(store, "activationKey") = <<>>
    /\ isDeviceLocked(store)
    /\ getItem(store, "lockMessage") = <<"Pay EMI">>

(* C22: a delivery that dispatches 'unlock' or 'expired', from any state, *)
(* leaves the stored flag 'false' and no lockMessage; 'expired' is        *)
(* dispatched whenever it is received, also when the delivery just before *)
(* dispatched and acknowledged the same 'expired'.                        *)
C22_UnlockAndExpired ==
    [][/\ (/\ Delivered
           /\ last'.dispatched
           /\ last'.cmd \in {"unlock", "expired"}) =>
                /\ getItem(store', "isLocked") = <<"false">>
                /\ getItem(store', "lockMessage") = <<>>
       /\ (Delivered /\ last'.cmd = "expired") => last'.dispatched]_vars

(* The poll has dispatched 'expired' on a device the app still shows as   *)
(* locked: the flag is 'false' and the message is gone.                   *)
C22_Witness ==
    /\ last.chan = "poll"
    /\ last.cmd = "expired"
    /\ last.dispatched
    /\ ui.locked
    /\ getItem(store, "isLocked") = <<"false">>
    /\ getItem(store, "lockMessage") = <<>>

(* C23: a delivery that dispatches 'reminder', 'ring' or 'reset' leaves   *)
(* the stored flag and lockMessage as they were and calls neither         *)
(* enableFullLockdown nor disableFullLockdown.                            *)
C23_AlertCommandsFrame ==
    [][(/\ Delivered
        /\ last'.dispatched
        /\ last'.cmd \in {"reminder", "find", "ring", "reset"}) =>
            /\ getItem(store', "isLocked") = getItem(store, "isLocked")
            /\ getItem(store', "lockMessage") = getItem(store, "lockMessage")
            /\ last'.enable = 0
            /\ last'.disable = 0
            /\ kiosk' = kiosk]_vars

(* A push has delivered 'reset' to a locked device: the wipe is pending   *)
(* and the lock state is still stored.                                    *)
C23_Witness ==
    /\ last.chan = "fg"
    /\ last.cmd = "reset"
    /\ last.dispatchOK
    /\ PendingResets(timers) # {}
    /\ isDeviceLocked(store)
    /\ getItem(store, "lockMessage") = <<"Pay EMI">>

(* The rings whose Vibration.cancel is still pending. *)
PendingRings(tm) == {i \in DOMAIN tm : tm[i].kind = "ring"}

(* C24: while the device vibrates a Vibration.cancel is pending, due      *)
(* within 10 s; and the cancel of one ring never cuts another ring short: *)
(* when it fires, no ring started later is still playing its pattern.     *)
C24_RingSelfCancelling ==
    [][/\ vibrating' =>
            \E i \in PendingRings(timers') :
                timers'[i].due <= now' + RingStopMs
       /\ (TimerFire /\ Head(timers).kind = "ring") =>
            \A i \in PendingRings(timers') :
                (timers'[i].due - RingStopMs) + RingPatternMs <= now]_vars

(* C25: when App's effect is torn down and set up again, or the process   *)
(* restarts, no ring timer of the old session stays pending and the       *)
(* subscriptions of the old session are gone: only those the new          *)
(* initializeApp adds are live.                                           *)
C25_TeardownCancels ==
    [][(RunEffect \/ AppStart) =>
        /\ PendingRings(timers') = {}
        /\ listeners' = initListeners(store, 0)]_vars

(* C29: at most one foreground subscription and one response subscription *)
(* are live at any time.                                                  *)
C29_OneSubscription == listeners <= 1

(* The sub-steps of the full lockdown, what each leaves in the OS and     *)
(* the flag it stores.                                                    *)
Primitives == {"lockTask", "launcher", "statusBar", "restrictions"}

InForce(k, c) ==
    CASE c = "lockTask" -> k.lockTask
      [] c = "launcher" -> k.hidden
      [] c = "statusBar" -> k.statusBarOff
      [] c = "restrictions" -> k.restricted

Flag(st, c) ==
    CASE c = "lockTask" -> getItem(st, "kioskModeActive")
      [] c = "launcher" -> getItem(st, "appHidden")
      [] OTHER -> <<>>

(* C26: in enableFullLockdown (with device admin) and in                  *)
(* disableFullLockdown every sub-step whose native call works takes       *)
(* effect and stores its flag, whichever other sub-step fails; a sub-step *)
(* that fails leaves its own effect and flag as they were; the call runs  *)
(* to its last sub-step.                                                  *)
C26_PartialFailure ==
    [][/\ (CallEnable /\ isDeviceAdmin(native)) =>
            \A c \in Primitives :
                IF Works(native, c)
                THEN /\ InForce(kiosk', c)
                     /\ c \in {"lockTask", "launcher"} =>
                            Flag(store', c) = <<"true">>
                ELSE /\ InForce(kiosk', c) = InForce(kiosk, c)
                     /\ Flag(store', c) = Flag(store, c)
       /\ CallDisable =>
            \A c \in Primitives :
                IF Works(native, c)
                THEN /\ ~InForce(kiosk', c)
                     /\ c \in {"lockTask", "launcher"} =>
                            Flag(store', c) = <<"false">>
                ELSE /\ InForce(kiosk', c) = InForce(kiosk, c)
                     /\ Flag(store', c) = Flag(store, c)]_vars

(* The lockdown was in force; a disableFullLockdown whose                 *)
(* stopLockTaskMode threw has released everything but lock task mode.     *)
C26_Witness ==
    /\ native = "kioskThrows"
    /\ last.disable = 1
    /\ kiosk = [lockTask |-> TRUE, hidden |-> FALSE, statusBarOff |-> FALSE,
                restricted |-> FALSE]
    /\ getItem(store, "kioskModeActive") = <<"true">>
    /\ getItem(store, "appHidden") = <<"false">>

(* C27: a second enableFullLockdown in a row changes neither the OS state *)
(* nor the stored flags, nor does a second disableFullLockdown; and       *)
(* disableFullLockdown right after enableFullLockdown leaves              *)
(* kioskModeActive and appHidden 'false' and nothing in force, for every  *)
(* primitive whose native call works.                                     *)
C27_LockdownIdempotent ==
    [][/\ (CallEnable /\ last.enable >= 1 /\ last.disable = 0) =>
            kiosk' = kiosk /\ store' = store
       /\ (CallDisable /\ last.disable >= 1) =>
            kiosk' = kiosk /\ store' = store
       /\ (CallDisable /\ last.enable >= 1 /\ last.disable = 0) =>
            \A c \in Primitives :
                Works(native, c) =>
                    /\ ~InForce(kiosk', c)
                    /\ c \in {"lockTask", "launcher"} =>
                            Flag(store', c) = <<"false">>]_vars

(* enableFullLockdown twice and then disableFullLockdown on a working     *)
(* module: nothing is in force and both flags are 'false'.                *)
C27_Witness ==
    /\ native = "ok"
    /\ last.enable = 2
    /\ last.disable = 1
    /\ kiosk = NoKiosk
    /\ getItem(store, "kioskModeActive") = <<"false">>
    /\ getItem(store, "appHidden") = <<"false">>

(* C28: whenever the stored flag says locked, an activation key is        *)
(* stored.                                                                *)
C28_LockedHasIdentity ==
    isDeviceLocked(store) => getItem(store, "activationKey") # <<>>

(* C30: on a device whose native module works, once no delivery is being  *)
(* handled and App has caught up with the stored flag, the lockdown       *)
(* follows the flag: with 'isLocked' 'false', 'kioskModeActive' is not    *)
(* 'true' and lock task mode is off; with 'isLocked' 'true', the full     *)
(* lockdown is in force and 'kioskModeActive' is 'true'.                  *)
C30_EnforcementFollowsFlag ==
    (/\ native = "ok"
     /\ ~effectDirty
     /\ ui.locked = isDeviceLocked(store)) =>
        /\ getItem(store, "isLocked") = <<"false">> =>
            /\ getItem(store, "kioskModeActive") # <<"true">>
            /\ ~kiosk.lockTask
        /\ getItem(store, "isLocked") = <<"true">> =>
            /\ getItem(store, "kioskModeActive") = <<"true">>
            /\ \A c \in Primitives : InForce(kiosk, c)

(* The commands of handleCommand that write the lock state. *)
LockStateCommands == {"lock", "unlock", "expired"}

(* The last command of a sequence that writes the lock state, NoReport    *)
(* when the sequence has none.                                            *)
LastLockState(h) ==
    LET at == {i \in 1..Len(h) : h[i].command \in LockStateCommands}
    IN  IF at = {} THEN NoReport
        ELSE h[CHOOSE i \in at : \A j \in at : j <= i]

(* C31: after any sequence of commands dispatched one after another with  *)
(* no wipe in between, the stored flag says locked exactly when the last  *)
(* of the lock, unlock and expired commands in the sequence is a lock     *)
(* (not locked when there is none), and the stored lockMessage is the     *)
(* message of that lock (empty when it carried none), absent otherwise.   *)
C31_LastLockStateWins ==
    LET r == LastLockState(history)
    IN  /\ isDeviceLocked(store) <=> r.command = "lock"
        /\ getItem(store, "lockMessage") =
               IF r.command = "lock" THEN <<OrEmpty(r.lockMessage)>>
               ELSE <<>>

C31_Witness ==
    /\ Len(history) = 3
    /\ history[1].command = "unlock"
    /\ history[2] = [command |-> "lock", lockMessage |-> "Pay EMI"]
    /\ history[3].command = "ring"
    /\ isDeviceLocked(store)
    /\ getItem(store, "lockMessage") = <<"Pay EMI">>

(* C32: when the app starts with an identity and the locked flag stored,  *)
(* initializeApp leaves App's isLocked true and has called                *)
(* enableFullLockdown: with device admin, every primitive whose native    *)
(* call works is in force.  When the app starts with no identity stored,  *)
(* initializeApp calls no lockdown primitive, subscribes no push listener *)
(* and registers no background task.                                      *)
C32_LockSurvivesRestart ==
    [][AppStart =>
        /\ (initActivated(store) /\ isDeviceLocked(store)) =>
              /\ ui'.locked
              /\ \A c \in Primitives :
                    (isDeviceAdmin(native) /\ Works(native, c)) =>
                        InForce(kiosk', c)
        /\ ~initActivated(store) =>
              /\ kiosk' = kiosk
              /\ store' = store
              /\ listeners' = 0
              /\ pollRegistered' = pollRegistered]_vars

C32_Witness ==
    /\ native = "ok"
    /\ last.chan = "poll"
    /\ last.cmd = "lock"
    /\ isDeviceLocked(store)
    /\ ui.locked
    /\ listeners = 1
    /\ getItem(store, "kioskModeActive") = <<"true">>
    /\ \A c \in Primitives : InForce(kiosk, c)

(* C33: performFactoryReset leaves no key in the store; once it has run,  *)
(* a poll cycle that starts returns NoData without dispatching, and no    *)
(* step of a poll cycle, started before or after the wipe, writes a key.  *)
C33_WipeIsFinal ==
    [][/\ RaceWipe => store' = EmptyStore
       /\ (wipesInWindow >= 1 /\ RacePollStart) =>
              /\ procs'["poll"].pc = "done"
              /\ procs'["poll"].out = "NoData"
       /\ (wipesInWindow >= 1 /\ procs'["poll"] # procs["poll"]) =>
              store' = store]_vars

(* C34: between handlers, the stored 'kioskModeActive' is 'true' exactly  *)
(* when native lock task mode is active.                                  *)
C34_FlagTracksLockTask ==
    (getItem(store, "kioskModeActive") = <<"true">>) <=> kiosk.lockTask

(* C35: without device admin enableFullLockdown calls no primitive: the   *)
(* OS lockdown and the store stay as they were and the results it returns *)
(* are all false; disableFullLockdown releases every primitive whose      *)
(* native call returns, device admin or not, and stores the flags.        *)
C35_EnableNeedsAdmin ==
    [][/\ (CallEnable /\ ~isDeviceAdmin(native)) =>
              /\ kiosk' = kiosk
              /\ store' = store
              /\ enableResults(native) =
                    [deviceAdmin |-> FALSE, kioskMode |-> FALSE,
                     appHidden |-> FALSE, statusBarDisabled |-> FALSE,
                     restrictionsSet |-> FALSE]
       /\ CallDisable =>
              \A c \in Primitives :
                  Works(native, c) =>
                      /\ ~InForce(kiosk', c)
                      /\ c \in {"lockTask", "launcher"} =>
                            Flag(store', c) = <<"false">>]_vars

C35_Witness ==
    /\ native = "noAdminCallsReturn"
    /\ last.enable = 2
    /\ last.disable = 0
    /\ \A c \in Primitives : InForce(kiosk, c)
    /\ getItem(store, "kioskModeActive") = <<"true">>

====
